---- MODULE Spec2Model ----
(***************************************************************************)
(* Model of src/app.py: the Streamlit session of the drill tracker.        *)
(*                                                                         *)
(* One action is one user interaction: the on_click callback (if any),     *)
(* then the script run main() with its load_data(), then the body of the   *)
(* pressed button, then the run that st.rerun() triggers.                  *)
(* Handlers that sleep are several actions: the countdown of the start     *)
(* button, and the save button (the load of its run, the write, and the    *)
(* return to the main screen after time.sleep(1)).                         *)
(*                                                                         *)
(* Encoding of values                                                      *)
(*   None            -1                                                    *)
(*   units           1..  index into unit_configs (src/app.py:17-22)       *)
(*   levels          i of "レベルi"                                         *)
(*   problems        1, 2 for "①", "②"                                    *)
(*   clock, elapsed  fifteenths of a second (time.time() readings)         *)
(*   タイム          tenths of a second (number_input, format "%.1f")       *)
(***************************************************************************)
EXTENDS Integers, Sequences, FiniteSets, TLC

\* ---------------------------------------------------------------- bounds
\* levels per unit in the model's catalogue (the program has 8..12)
MaxLevel == 2
\* largest reading of time.time(), in fifteenths of a second
MaxClock == 1
\* number of conn.update calls explored in one behaviour
MaxSaves == 1
\* largest value typed into the "間違えた数" input
MaxMistakes == 0

\* ------------------------------------------------------------- constants
None == -1
\* len(favorites) >= 3 is refused
MaxFavorites == 3

\* the first two units of unit_configs
Units == {1, 2}
unit_configs == [u \in Units |-> MaxLevel]
LevelsOf(u) == 1..unit_configs[u]
DRILL_DATA == {<<u, l>> : u \in Units, l \in 1..MaxLevel}
\* the first two of ["①", "②", "③", "④"]
problems == {1, 2}
\* values of the "間違えた数" input: its default 0 (min_value=0, value=0) and
\* what the user types
MistakeInputs == 0..MaxMistakes

Clock == 0..MaxClock

\* round(x, 1): fifteenths of a second to the nearest tenth, that is
\* floor(10 * x / 15 + 1 / 2) (no ties occur)
RoundPos(x) == (4 * x + 3) \div 6
Round1(x) == IF x >= 0 THEN RoundPos(x) ELSE -RoundPos(-x)

\* datetime.now().strftime("%Y-%m-%d"): the day number of a clock reading
DateOf(now) == now \div (15 * 86400)

\* pd.DataFrame(columns=expected_columns)
EmptyDf == <<>>

\* a record written by an earlier session
OldRecord == [date |-> 0, unit |-> 1, level |-> 1, problem |-> 1, time |-> 1, mistakes |-> 0]

\* the record a session in another process saves
PeerRecord == [date |-> 0, unit |-> 2, level |-> 1, problem |-> 2, time |-> 1, mistakes |-> 2]

\* worksheet contents the session may find: no rows, one record, or rows
\* under a header without the "日付" column
InitSheets ==
  { [cols_ok |-> TRUE, rows |-> <<>>],
    [cols_ok |-> TRUE, rows |-> <<OldRecord>>],
    [cols_ok |-> FALSE, rows |-> <<OldRecord>>] }

\* a row under a header that has "日付" but not "単元"
LegacyRecord == [date |-> 0, level |-> 1, problem |-> 1, time |-> 1, mistakes |-> 0]

\* the worksheets above and one whose header lacks the "単元" column
LoadSheets == InitSheets \cup {[cols_ok |-> TRUE, rows |-> <<LegacyRecord>>]}

VARIABLES
  current_screen, selected_unit, selected_level, favorites,
  selected_tab_unit, selected_problem,
  start_time, elapsed_time, is_running,
  sheet,        \* the worksheet "Sheet1"
  cache,        \* st.cache_data entry of load_data
  updates,      \* number of conn.update calls so far
  load_error,   \* st.error of load_data shown by the last run
  pc,           \* position in the blocking countdown of the start button
  event,        \* the widget event handled last, with its outcome
  peer,         \* another session of the app: position, dataset and st.error of
                \* its run, and whether another server process serves it
  run_df,       \* the df of main() in the run of the save button, while it lasts
  view_error    \* the last run that reached its data views ended in a KeyError

vars == <<current_screen, selected_unit, selected_level, favorites,
          selected_tab_unit, selected_problem, start_time, elapsed_time,
          is_running, sheet, cache, updates, load_error, pc, event, peer,
          run_df, view_error>>

selection == <<current_screen, selected_unit, selected_level, selected_problem>>
timer == <<start_time, elapsed_time, is_running>>

\* ------------------------------------------------------------ favorites
Member(s, x) == \E i \in 1..Len(s) : s[i] = x

FirstIndex(s, x) == CHOOSE i \in 1..Len(s) : s[i] = x /\ \A j \in 1..(i-1) : s[j] # x

\* list.remove(x): drops the first occurrence
Remove(s, x) ==
  LET k == FirstIndex(s, x)
  IN  [i \in 1..(Len(s) - 1) |-> IF i < k THEN s[i] ELSE s[i + 1]]

\* variant: the capacity test lets a fourth entry in
toggle_favorite_off_by_one(favs, fav) ==
  IF Member(favs, fav)
    THEN Remove(favs, fav)
    ELSE IF Len(favs) > MaxFavorites THEN favs ELSE Append(favs, fav)

\* variant: a full list drops its oldest entry to let the new one in
toggle_favorite_evicts(favs, fav) ==
  IF Member(favs, fav)
    THEN Remove(favs, fav)
    ELSE IF Len(favs) >= MaxFavorites THEN Append(Tail(favs), fav) ELSE Append(favs, fav)

\* variant: a new entry goes to the front of the list
toggle_favorite_prepends(favs, fav) ==
  IF Member(favs, fav)
    THEN Remove(favs, fav)
    ELSE IF Len(favs) >= MaxFavorites THEN favs ELSE <<fav>> \o favs

toggle_favorite(favs, fav) ==
  IF Member(favs, fav)
    THEN Remove(favs, fav)
    ELSE IF Len(favs) >= MaxFavorites THEN favs ELSE Append(favs, fav)

\* outcome of toggle_favorite as shown to the user
toggle_outcome(favs, fav) ==
  IF Member(favs, fav) THEN "fav_removed"
  ELSE IF Len(favs) >= MaxFavorites THEN "fav_full" ELSE "fav_added"

\* ----------------------------------------------------------- record store
\* _conn.read and the checks of load_data on a cache miss
Fetch(sh, readOk) ==
  IF ~readOk THEN EmptyDf
  ELSE IF sh.rows = <<>> \/ ~sh.cols_ok THEN EmptyDf
  ELSE sh.rows

\* load_data under st.cache_data(ttl=60)
load_data(readOk) == IF cache.valid THEN cache.df ELSE Fetch(sheet, readOk)

\* variant: the write appends to what the worksheet holds now
save_data_merges(df, entry) == [cols_ok |-> TRUE, rows |-> Append(sheet.rows, entry)]

\* pd.concat([df, pd.DataFrame([entry])]) written back by conn.update
save_data(df, entry) == [cols_ok |-> TRUE, rows |-> Append(df, entry)]

\* df["単元"] raises KeyError: the dataset has no such column
KeyError(df) == \E i \in 1..Len(df) : "unit" \notin DOMAIN df[i]

\* the call of load_data in main(): a miss reads the sheet and stores the
\* result together with the st.error drawn inside the function; a hit
\* returns the stored result and draws the stored st.error again
Load(readOk) ==
  /\ cache' = IF cache.valid THEN cache
              ELSE [valid |-> TRUE, df |-> Fetch(sheet, readOk), err |-> ~readOk]
  /\ load_error' = IF cache.valid THEN cache.err ELSE ~readOk

\* one script run that goes on to the end of the given screen: the main
\* screen evaluates df["単元"] for its cards, the drill screen for its chart,
\* which comes after the return taken while no problem is chosen
RunOn(readOk, screen, problem) ==
  /\ Load(readOk)
  /\ view_error' = (KeyError(load_data(readOk)) /\ (screen = "main" \/ problem # None))

\* a run that leaves screen and problem as they are
Run(readOk) == RunOn(readOk, current_screen, selected_problem)

\* the run after st.cache_data.clear() and st.rerun()
RunFresh(sh, readOk) ==
  /\ cache' = [valid |-> TRUE, df |-> Fetch(sh, readOk), err |-> ~readOk]
  /\ load_error' = ~readOk
  /\ view_error' = KeyError(Fetch(sh, readOk))

\* ------------------------------------------------------------------ Init
Init ==
  /\ current_screen = "main"
  /\ selected_unit = None
  /\ selected_level = None
  /\ favorites = <<>>
  /\ selected_tab_unit = 1
  /\ selected_problem = None
  /\ start_time = None
  /\ elapsed_time = 0
  /\ is_running = FALSE
  /\ sheet \in InitSheets
  /\ cache = [valid |-> FALSE, df |-> EmptyDf, err |-> FALSE]
  /\ updates = 0
  /\ load_error = FALSE
  /\ pc = "ready"
  /\ event = "init"
  /\ peer = [pc |-> "idle", df |-> EmptyDf, own |-> TRUE, err |-> FALSE]
  /\ run_df = EmptyDf
  /\ view_error = FALSE

\* what the handler of the last event put on the screen: st.warning of
\* toggle_favorite, st.success of the save button, otherwise nothing
Message ==
  CASE event = "fav_full" -> "warning"
    [] event = "saved" -> "success"
    [] OTHER -> "none"

\* ------------------------------------------------------ views of the data
\* df[(df["単元"] == unit) & (df["レベル"] == level)]
filtered_df(df, unit, level) == SelectSeq(df, LAMBDA r : r.unit = unit /\ r.level = level)

\* filtered_df["タイム"].min(), or the "-" of the empty case
best_time(df, unit, level) ==
  LET f == filtered_df(df, unit, level)
  IN  IF f = <<>> THEN None
      ELSE CHOOSE t \in {f[i].time : i \in 1..Len(f)} :
             \A i \in 1..Len(f) : t <= f[i].time

\* filtered_df["日付"].max(), or the "-" of the empty case
last_date(df, unit, level) ==
  LET f == filtered_df(df, unit, level)
  IN  IF f = <<>> THEN None
      ELSE CHOOSE d \in {f[i].date : i \in 1..Len(f)} :
             \A i \in 1..Len(f) : d >= f[i].date

\* len(filtered_df), shown as "0 回" in the empty case
try_count(df, unit, level) == Len(filtered_df(df, unit, level))

\* what the card of a level shows, or the exception that ends the run
LevelCard(df, unit, level) ==
  IF KeyError(df) THEN "KeyError"
  ELSE [best_time |-> best_time(df, unit, level),
        last_date |-> last_date(df, unit, level),
        try_count |-> try_count(df, unit, level)]

\* the page is the main screen whose run ended in a KeyError at the first
\* chart or card
MainRaises == current_screen = "main" /\ view_error

\* ------------------------------------------------------- widgets on screen
\* widgets exist once the first run has drawn the page
OnMain == current_screen = "main" /\ pc = "ready" /\ event # "init"
\* the drill page takes clicks while a handler is under way, and a click ends
\* that handler at its next st call: in the countdown, in the run of the save
\* button before it reaches save_data ("save_run"), or at the st.success that
\* follows the write ("save_stopped"); the clicks made in the sleep after a
\* save are those of SaveReturn and SaveReturnSetProblem
OnDrill ==
  /\ current_screen = "drill"
  /\ event # "init"
  /\ pc \in {"ready", "tick3", "tick2", "tick1", "go", "save_run", "save_stopped"}
\* the stopwatch is drawn only once a problem is chosen
TimerShown == OnDrill /\ selected_problem # None
\* variant: the form does not look at the elapsed time
FormShownAnyElapsed == TimerShown /\ ~is_running

\* the save form is drawn only after a finished measurement
FormShown == TimerShown /\ elapsed_time > 0 /\ ~is_running

\* pairs with buttons on the main screen: the favorites and the open tab
Listed ==
  IF MainRaises THEN {}
  ELSE {favorites[i] : i \in 1..Len(favorites)}
         \cup {<<selected_tab_unit, l>> : l \in LevelsOf(selected_tab_unit)}

\* ---------------------------------------------------------------- actions
\* a script run without a widget event (first render)
Render ==
  /\ pc = "ready"
  /\ UNCHANGED <<peer, run_df>>
  /\ event = "init"
  /\ \E readOk \in BOOLEAN : Run(readOk)
  /\ event' = "render"
  /\ UNCHANGED <<selection, favorites, selected_tab_unit, timer, sheet, updates, pc>>

\* the 60 seconds of the cache entry pass
TtlExpire ==
  /\ cache.valid
  /\ UNCHANGED <<peer, run_df, view_error>>
  /\ cache' = [valid |-> FALSE, df |-> EmptyDf, err |-> FALSE]
  /\ UNCHANGED <<selection, favorites, selected_tab_unit, timer, sheet, updates,
                 load_error, pc, event>>

\* variant: the stopwatch is not reset on the way into a drill
go_to_drill_keeps_timer(unit, level) ==
  /\ selected_unit' = unit
  /\ selected_level' = level
  /\ current_screen' = "drill"
  /\ selected_problem' = None
  /\ UNCHANGED timer

go_to_drill(unit, level) ==
  /\ selected_unit' = unit
  /\ selected_level' = level
  /\ current_screen' = "drill"
  /\ selected_problem' = None
  /\ elapsed_time' = 0
  /\ start_time' = None
  /\ is_running' = FALSE

\* "挑戦する！" / "挑戦！" of one listed pair
GoToDrillOf(fav) ==
  /\ OnMain
  /\ UNCHANGED <<peer, run_df>>
  /\ fav \in Listed
  /\ go_to_drill(fav[1], fav[2])
  /\ \E readOk \in BOOLEAN : RunOn(readOk, "drill", None)
  /\ event' = "go_to_drill"
  /\ UNCHANGED <<favorites, selected_tab_unit, sheet, updates, pc>>

GoToDrill == \E fav \in DRILL_DATA : GoToDrillOf(fav)

\* variant: the level survives the way back
go_to_main_keeps_level ==
  /\ current_screen' = "main"
  /\ selected_unit' = None
  /\ selected_level' = selected_level
  /\ selected_problem' = None

go_to_main ==
  /\ current_screen' = "main"
  /\ selected_unit' = None
  /\ selected_level' = None
  /\ selected_problem' = None

\* "一覧に戻る"; the event tells a return made right after go_to_drill
GoToMain ==
  /\ OnDrill
  /\ UNCHANGED peer /\ run_df' = EmptyDf
  /\ go_to_main
  /\ \E readOk \in BOOLEAN : RunOn(readOk, "main", None)
  /\ event' = IF event = "go_to_drill" THEN "go_to_main_at_once" ELSE "go_to_main"
  /\ UNCHANGED <<favorites, selected_tab_unit, timer, sheet, updates>>
  /\ pc' = "ready"

\* "はずす" / "☆ 追加" / "⭐ 解除" of one listed pair
ToggleFavoriteOf(fav) ==
  /\ OnMain
  /\ UNCHANGED <<peer, run_df>>
  /\ fav \in Listed
  /\ favorites' = toggle_favorite(favorites, fav)
  /\ event' = toggle_outcome(favorites, fav)
  /\ \E readOk \in BOOLEAN : Run(readOk)
  /\ UNCHANGED <<selection, selected_tab_unit, timer, sheet, updates, pc>>

ToggleFavorite == \E fav \in DRILL_DATA : ToggleFavoriteOf(fav)

\* the unit tabs are drawn after the favorites section
SetTabUnit ==
  /\ OnMain
  /\ ~(MainRaises /\ favorites # <<>>)
  /\ UNCHANGED <<peer, run_df>>
  /\ \E u \in Units : selected_tab_unit' = u
  /\ \E readOk \in BOOLEAN : Run(readOk)
  /\ event' = "set_tab_unit"
  /\ UNCHANGED <<selection, favorites, timer, sheet, updates, pc>>

SetProblem ==
  /\ OnDrill
  /\ UNCHANGED peer /\ run_df' = EmptyDf
  /\ \E p \in problems, readOk \in BOOLEAN :
       selected_problem' = p /\ RunOn(readOk, "drill", p)
  /\ pc' = "ready"
  /\ event' = "set_problem"
  /\ UNCHANGED <<current_screen, selected_unit, selected_level, favorites,
                 selected_tab_unit, timer, sheet, updates>>

\* "データを最新に更新": clear the cache and rerun
Refresh ==
  /\ OnMain
  /\ UNCHANGED <<peer, run_df>>
  /\ \E readOk \in BOOLEAN : RunFresh(sheet, readOk)
  /\ event' = "refresh"
  /\ UNCHANGED <<selection, favorites, selected_tab_unit, timer, sheet, updates, pc>>

\* ------------------------------------------------------------- stopwatch
\* "開始": the run draws "3" and sleeps
StartPressed ==
  /\ TimerShown
  /\ UNCHANGED <<peer, view_error>> /\ run_df' = EmptyDf
  /\ \E readOk \in BOOLEAN : Load(readOk)
  /\ pc' = "tick3"
  /\ event' = "start_pressed"
  /\ UNCHANGED <<selection, favorites, selected_tab_unit, timer, sheet, updates>>

\* time.sleep between the countdown figures and the "スタート！" flash
CountdownTick ==
  /\ pc \in {"tick3", "tick2", "tick1"}
  /\ UNCHANGED <<peer, run_df, view_error>>
  /\ pc' = CASE pc = "tick3" -> "tick2"
             [] pc = "tick2" -> "tick1"
             [] pc = "tick1" -> "go"
  /\ UNCHANGED <<selection, favorites, selected_tab_unit, timer, sheet, cache,
                 updates, load_error, event>>

\* variant: the start instant is not stored
start_without_instant(now) ==
  /\ start_time' = start_time
  /\ is_running' = TRUE
  /\ elapsed_time' = 0

\* end of the countdown: the start instant is read and the script reruns
start(now) ==
  /\ start_time' = now
  /\ is_running' = TRUE
  /\ elapsed_time' = 0

StartTimer ==
  /\ pc = "go"
  /\ UNCHANGED <<peer, run_df>>
  /\ \E now \in Clock : start(now)
  /\ \E readOk \in BOOLEAN : Run(readOk)
  /\ pc' = "ready"
  /\ event' = "start"
  /\ UNCHANGED <<selection, favorites, selected_tab_unit, sheet, updates>>

\* variant: the is_running test is missing
stop_unguarded(now) ==
  IF start_time # None
    THEN /\ elapsed_time' = now - start_time
         /\ is_running' = FALSE
         /\ start_time' = start_time
         /\ event' = IF is_running THEN "stop" ELSE "stop_ignored"
    ELSE /\ UNCHANGED timer
         /\ event' = "stop_ignored"

\* "停止": acts only while is_running
stop(now) ==
  IF is_running
    THEN /\ elapsed_time' = now - start_time
         /\ is_running' = FALSE
         /\ start_time' = start_time
         /\ event' = "stop"
    ELSE /\ UNCHANGED timer
         /\ event' = "stop_ignored"

Stop ==
  /\ TimerShown
  /\ UNCHANGED peer /\ run_df' = EmptyDf
  /\ \E now \in Clock : stop(now)
  /\ \E readOk \in BOOLEAN : Run(readOk)
  /\ UNCHANGED <<selection, favorites, selected_tab_unit, sheet, updates>>
  /\ pc' = "ready"

\* variant: the start instant is left behind
reset_keeps_start ==
  /\ start_time' = start_time
  /\ elapsed_time' = 0
  /\ is_running' = FALSE

\* "リセット"
reset ==
  /\ start_time' = None
  /\ elapsed_time' = 0
  /\ is_running' = FALSE

Reset ==
  /\ TimerShown
  /\ UNCHANGED peer /\ run_df' = EmptyDf
  /\ reset
  /\ \E readOk \in BOOLEAN : Run(readOk)
  /\ event' = "reset"
  /\ UNCHANGED <<selection, favorites, selected_tab_unit, sheet, updates>>
  /\ pc' = "ready"

\* ------------------------------------------------------------------ save
\* the entry built from the selection and the two number inputs
Entry(now, input_time, input_mistakes) ==
  [date |-> DateOf(now), unit |-> selected_unit, level |-> selected_level,
   problem |-> selected_problem, time |-> input_time, mistakes |-> input_mistakes]

\* the value the time input may hold: its default or what the user typed
InputTimes == {Round1(elapsed_time)} \cup (0..Round1(MaxClock))

\* "記録を保存して戻る" pressed: the run of the click calls load_data
SavePressed ==
  /\ FormShown
  /\ \E readOk \in BOOLEAN : Load(readOk) /\ run_df' = load_data(readOk)
  /\ pc' = "save_run"
  /\ event' = "save_pressed"
  /\ UNCHANGED <<selection, favorites, selected_tab_unit, timer, sheet, updates,
                 peer, view_error>>

\* variant: st.cache_data.clear() is missing after the write
SaveDoneKeepsCache(df, entry) ==
  /\ sheet' = save_data(df, entry)
  /\ updates' = updates + 1
  /\ cache' = cache
  /\ \E clicked \in BOOLEAN :
       /\ pc' = IF clicked THEN "save_stopped" ELSE "save_sleep"
       /\ event' = IF clicked THEN "written" ELSE "saved"
  /\ UNCHANGED <<selection, timer, load_error, view_error>>

\* save_data reached and conn.update done, cache cleared; then st.success is
\* drawn and the handler sleeps, or a click made meanwhile stops the handler
\* at st.success
SaveDone(df, entry) ==
  /\ sheet' = save_data(df, entry)
  /\ updates' = updates + 1
  /\ cache' = [valid |-> FALSE, df |-> EmptyDf, err |-> FALSE]
  /\ \E clicked \in BOOLEAN :
       /\ pc' = IF clicked THEN "save_stopped" ELSE "save_sleep"
       /\ event' = IF clicked THEN "written" ELSE "saved"
  /\ UNCHANGED <<selection, timer, load_error, view_error>>

\* conn.update raises: the run ends with the exception
SaveFailed ==
  /\ pc' = "ready"
  /\ event' = "save_failed"
  /\ view_error' = FALSE
  /\ UNCHANGED <<selection, timer, sheet, cache, updates, load_error>>

\* input_time > 0 is false: the button does nothing and the run goes on to
\* the chart of the drill
SaveRejected(df) ==
  /\ pc' = "ready"
  /\ event' = "save_rejected"
  /\ view_error' = KeyError(df)
  /\ UNCHANGED <<selection, timer, sheet, cache, updates, load_error>>

\* the body of the save button, on the df the run has loaded
Save ==
  /\ pc = "save_run"
  /\ \E now \in Clock, input_time \in InputTimes, input_mistakes \in MistakeInputs :
       IF input_time > 0
         THEN \/ /\ updates < MaxSaves
                 /\ SaveDone(run_df, Entry(now, input_time, input_mistakes))
              \/ SaveFailed
         ELSE SaveRejected(run_df)
  /\ run_df' = EmptyDf
  /\ UNCHANGED <<favorites, selected_tab_unit, peer>>

\* the sleep after st.success is over: go_to_main() and st.rerun()
SaveReturn ==
  /\ pc = "save_sleep"
  /\ go_to_main
  /\ \E readOk \in BOOLEAN : RunOn(readOk, "main", None)
  /\ pc' = "ready"
  /\ event' = "save_return"
  /\ UNCHANGED <<favorites, selected_tab_unit, timer, sheet, updates, peer, run_df>>

\* a problem button clicked during the sleep after a save: its callback
\* set_problem runs after go_to_main(), in the run that st.rerun() starts
SaveReturnSetProblem ==
  /\ pc = "save_sleep"
  /\ current_screen' = "main"
  /\ selected_unit' = None
  /\ selected_level' = None
  /\ \E p \in problems, readOk \in BOOLEAN :
       selected_problem' = p /\ RunOn(readOk, "main", p)
  /\ pc' = "ready"
  /\ event' = "set_problem"
  /\ UNCHANGED <<favorites, selected_tab_unit, timer, sheet, updates, peer, run_df>>

\* ------------------------------------------------- a second writer
\* the other session's script run: load_data, on a cache of its own when
\* another process serves it, else on the cache of this process
PeerLoad ==
  /\ peer.pc = "idle"
  /\ \E readOk \in BOOLEAN, own \in BOOLEAN :
       IF own
         THEN /\ peer' = [pc |-> "loaded", df |-> Fetch(sheet, readOk), own |-> TRUE,
                           err |-> ~readOk]
              /\ cache' = cache
         ELSE /\ peer' = [pc |-> "loaded", df |-> load_data(readOk), own |-> FALSE,
                           err |-> IF cache.valid THEN cache.err ELSE ~readOk]
              /\ cache' = IF cache.valid THEN cache
                          ELSE [valid |-> TRUE, df |-> Fetch(sheet, readOk),
                                err |-> ~readOk]
  /\ UNCHANGED <<selection, favorites, selected_tab_unit, timer, sheet,
                 updates, load_error, pc, event, run_df, view_error>>

\* the other session's save button: save_data on the dataset it loaded, and
\* st.cache_data.clear() on the cache of its process
PeerSave ==
  /\ peer.pc = "loaded"
  /\ sheet' = save_data(peer.df, PeerRecord)
  /\ cache' = IF peer.own THEN cache ELSE [valid |-> FALSE, df |-> EmptyDf, err |-> FALSE]
  /\ peer' = [peer EXCEPT !.pc = "sleep"]
  /\ UNCHANGED <<selection, favorites, selected_tab_unit, timer,
                 updates, load_error, pc, event, run_df, view_error>>

\* the other session's rerun after its sleep calls load_data again
PeerReturn ==
  /\ peer.pc = "sleep"
  /\ peer' = [peer EXCEPT !.pc = "saved"]
  /\ \E readOk \in BOOLEAN :
       cache' = IF peer.own \/ cache.valid THEN cache
                ELSE [valid |-> TRUE, df |-> Fetch(sheet, readOk), err |-> ~readOk]
  /\ UNCHANGED <<selection, favorites, selected_tab_unit, timer, sheet,
                 updates, load_error, pc, event, run_df, view_error>>

Next ==
  \/ Render
  \/ TtlExpire
  \/ GoToDrill
  \/ GoToMain
  \/ ToggleFavorite
  \/ SetTabUnit
  \/ SetProblem
  \/ Refresh
  \/ StartPressed
  \/ CountdownTick
  \/ StartTimer
  \/ Stop
  \/ Reset
  \/ SavePressed
  \/ Save
  \/ SaveReturn
  \/ SaveReturnSetProblem

\* the whole program
Spec == Init /\ [][Next]_vars

\* the session of a new user whose worksheet has no rows yet
InitSession == Init /\ sheet = [cols_ok |-> TRUE, rows |-> <<>>]

\* ... with every operation of the program
SpecSession == InitSession /\ [][Next]_vars

\* the session of a user who keeps no favorites and stays on the first tab:
\* navigation, problem choice, stopwatch and saving
NextRecords ==
  \/ Render
  \/ TtlExpire
  \/ GoToDrill
  \/ GoToMain
  \/ SetProblem
  \/ Refresh
  \/ StartPressed
  \/ CountdownTick
  \/ StartTimer
  \/ Stop
  \/ Reset
  \/ SavePressed
  \/ Save
  \/ SaveReturn
  \/ SaveReturnSetProblem

SpecRecords == Init /\ [][NextRecords]_vars

\* a session that does not save, on any of the worksheets
InitLoad ==
  /\ current_screen = "main"
  /\ selected_unit = None
  /\ selected_level = None
  /\ favorites = <<>>
  /\ selected_tab_unit = 1
  /\ selected_problem = None
  /\ start_time = None
  /\ elapsed_time = 0
  /\ is_running = FALSE
  /\ sheet \in LoadSheets
  /\ cache = [valid |-> FALSE, df |-> EmptyDf, err |-> FALSE]
  /\ updates = 0
  /\ load_error = FALSE
  /\ pc = "ready"
  /\ event = "init"
  /\ peer = [pc |-> "idle", df |-> EmptyDf, own |-> TRUE, err |-> FALSE]
  /\ run_df = EmptyDf
  /\ view_error = FALSE

NextLoad ==
  \/ Render
  \/ TtlExpire
  \/ GoToDrill
  \/ GoToMain
  \/ SetTabUnit
  \/ SetProblem
  \/ Refresh
  \/ StartPressed
  \/ CountdownTick
  \/ StartTimer
  \/ Stop
  \/ Reset

SpecLoad == InitLoad /\ [][NextLoad]_vars

\* one measuring session, working on the first drill of the open tab, and one
\* other writer, on a worksheet that starts empty
NextShared ==
  \/ Render
  \/ TtlExpire
  \/ GoToDrillOf(<<1, 1>>)
  \/ SetProblem
  \/ StartPressed
  \/ CountdownTick
  \/ StartTimer
  \/ Stop
  \/ SavePressed
  \/ Save
  \/ SaveReturn
  \/ SaveReturnSetProblem
  \/ PeerLoad
  \/ PeerSave
  \/ PeerReturn

SpecShared == InitSession /\ [][NextShared]_vars

\* ------------------------------------------------------------------ types
TypeOK ==
  /\ current_screen \in {"main", "drill"}
  /\ selected_unit \in Units \cup {None}
  /\ selected_level \in (1..MaxLevel) \cup {None}
  /\ selected_problem \in problems \cup {None}
  /\ selected_tab_unit \in Units
  /\ start_time \in Clock \cup {None}
  /\ elapsed_time \in -MaxClock..MaxClock
  /\ is_running \in BOOLEAN
  /\ cache.valid \in BOOLEAN
  /\ updates \in 0..MaxSaves
  /\ load_error \in BOOLEAN
  /\ pc \in {"ready", "tick3", "tick2", "tick1", "go", "save_run", "save_sleep",
            "save_stopped"}
  /\ cache.err \in BOOLEAN
  /\ view_error \in BOOLEAN
  /\ peer.pc \in {"idle", "loaded", "sleep", "saved"}
  /\ peer.own \in BOOLEAN
  /\ peer.err \in BOOLEAN

\* ------------------------------------------------------------ properties
IsPrefix(a, b) == Len(a) <= Len(b) /\ \A i \in 1..Len(a) : b[i] = a[i]
NoDuplicates(s) == \A i, j \in 1..Len(s) : i # j => s[i] # s[j]
\* a step in which conn.update was called
Written == updates' = updates + 1
\* the record appended by the last write
LastRow(sh) == sh.rows[Len(sh.rows)]
\* the step that ends the save handler after a write
AfterWrite == pc \in {"save_sleep", "save_stopped"} /\ pc' # pc
\* C1: the favorites list never has more than 3 entries and never holds the
\* same (unit, level) pair twice.
C1_FavoritesBounded == Len(favorites) <= 3 /\ NoDuplicates(favorites)

\* C1 witness: the list is full and one more add has just been refused.
C1_Witness == Len(favorites) = 3 /\ event = "fav_full"

\* C2: every record in the store before a step is still in the store, at its
\* place and unmodified, after the step (the store only grows at its end).
C2_AppendOnly == [][IsPrefix(sheet.rows, sheet'.rows)]_vars

\* C3 as claimed: the load that follows a write returns a dataset containing
\* the record just appended.
C3_ReadAfterWrite ==
  [][AfterWrite => (cache'.valid /\ Member(cache'.df, LastRow(sheet)))]_vars

\* C3 amended: the load that follows a write either returns the whole store,
\* the appended record included, or its read failed and the error is shown.
C3_ReadAfterWriteUnlessReadFails ==
  [][/\ Written => ~cache'.valid
     /\ AfterWrite =>
          /\ cache'.valid
          /\ \/ load_error'
             \/ (cache'.df = sheet.rows /\ Member(cache'.df, LastRow(sheet)))]_vars

\* C3 witness: a record was saved, the load after it succeeded and returned a
\* dataset that ends with this record.
C3_Witness ==
  /\ event = "save_return"
  /\ ~load_error
  /\ cache.valid
  /\ cache.df = sheet.rows
  /\ Len(cache.df) >= 1

\* C4: the store is written only from a state with a positive elapsed time, a
\* stopped timer and an active drill selection; so no write happens as long as
\* the elapsed time has never been positive.
C4_WriteNeedsMeasurement ==
  [][updates' # updates =>
       /\ elapsed_time > 0
       /\ ~is_running
       /\ current_screen = "drill"
       /\ selected_unit # None
       /\ selected_level # None]_vars

\* C4 witness: a write has happened.
C4_Witness == updates = 1 /\ event = "saved"

\* C5: after a successful save the session is on the main screen with the
\* selection cleared and the timer idle (not running, no start instant,
\* elapsed time 0).
C5_SaveResetsTimer ==
  [][AfterWrite =>
       /\ current_screen' = "main"
       /\ selected_unit' = None /\ selected_level' = None /\ selected_problem' = None
       /\ ~is_running' /\ start_time' = None /\ elapsed_time' = 0]_vars

\* C6: unit, level and problem are all present on the drill screen and all
\* absent on the main screen.
C6_SelectionAllOrNothing ==
  /\ current_screen = "drill" =>
       (selected_unit # None /\ selected_level # None /\ selected_problem # None)
  /\ current_screen = "main" =>
       (selected_unit = None /\ selected_level = None /\ selected_problem = None)

\* C7: the elapsed time is never negative.
C7_ElapsedNonNegative == elapsed_time >= 0

\* C8 as claimed: the start instant is present exactly when the timer runs.
C8_StartIffRunning == (start_time # None) <=> is_running

\* C8 amended: a running timer has a start instant, and a timer without a
\* start instant is idle with elapsed time 0; stop leaves the start instant
\* as it is, and a start instant is cleared by reset and go_to_drill only.
C8_RunningHasStart ==
  /\ [](is_running => start_time # None)
  /\ [](start_time = None => (~is_running /\ elapsed_time = 0))
  /\ [][/\ event' = "stop" =>
            (start_time' = start_time /\ start_time' # None /\ ~is_running')
        /\ (start_time # None /\ start_time' = None) =>
            event' \in {"reset", "go_to_drill"}]_vars

\* C8 witness: stopped by stop(), with the start instant still present.
C8_Witness == event = "stop" /\ ~is_running /\ start_time # None

\* C9: the stop button pressed while the timer is not running leaves the
\* start instant, the elapsed time, the running flag, the selection and the
\* favorites as they were.
C9_StopIgnored ==
  [][(Stop /\ ~is_running) =>
       UNCHANGED <<start_time, elapsed_time, is_running, selection, favorites>>]_vars

\* C9 witness: stop was pressed on a stopped timer that holds a measurement,
\* with a favorite on the list.
C9_Witness ==
  /\ event = "stop_ignored"
  /\ elapsed_time > 0
  /\ start_time # None
  /\ Len(favorites) > 0

\* C10: the reset button always leaves the timer not running, with elapsed
\* time 0 and no start instant.
C10_ResetYieldsIdle ==
  [][Reset => (~is_running' /\ elapsed_time' = 0 /\ start_time' = None)]_vars

\* C10 witness: reset has just been pressed and the timer is idle.
C10_Witness ==
  /\ event = "reset"
  /\ ~is_running
  /\ elapsed_time = 0
  /\ start_time = None

\* the list without every occurrence of x
Without(s, x) == SelectSeq(s, LAMBDA y : y # x)

\* C11: toggling a pair that is not a member while the list has 3 entries
\* shows the capacity warning and leaves the list, contents and order, as it
\* was.
C11_FullListRefusesAdd ==
  [][\A fav \in DRILL_DATA :
       (ToggleFavoriteOf(fav) /\ ~Member(favorites, fav) /\ Len(favorites) = 3) =>
         (event' = "fav_full" /\ favorites' = favorites)]_vars

\* C11 witness: the warning is on screen and the list still has its 3 entries.
C11_Witness == event = "fav_full" /\ Len(favorites) = 3 /\ current_screen = "main"

\* C13: a save attempt that is turned down shows an error or warning message
\* to the user (and writes nothing).
C13_RejectedSaveReports ==
  event = "save_rejected" => (Message \in {"error", "warning"} /\ updates = 0)

\* C14: go_to_main called right after go_to_drill leaves the main screen with
\* unit, level and problem all absent.
C14_DrillThenMain ==
  [][(GoToMain /\ event = "go_to_drill") =>
       /\ current_screen' = "main"
       /\ selected_unit' = None
       /\ selected_level' = None
       /\ selected_problem' = None]_vars

\* C14 witness: back on the main screen right after go_to_drill, nothing
\* selected.
C14_Witness ==
  /\ event = "go_to_main_at_once"
  /\ current_screen = "main"
  /\ selected_unit = None
  /\ selected_level = None
  /\ selected_problem = None

\* C17: go_to_drill(unit, level) selects the pair, shows the drill screen,
\* clears the problem and leaves the timer idle; and whenever the drill
\* selection changes, the timer of the new drill is idle.
C17_GoToDrillResets ==
  [][/\ \A fav \in DRILL_DATA :
          GoToDrillOf(fav) =>
            /\ selected_unit' = fav[1]
            /\ selected_level' = fav[2]
            /\ current_screen' = "drill"
            /\ selected_problem' = None
            /\ ~is_running' /\ elapsed_time' = 0 /\ start_time' = None
     /\ (/\ current_screen' = "drill"
         /\ <<selected_unit', selected_level'>> # <<selected_unit, selected_level>>) =>
          (~is_running' /\ elapsed_time' = 0 /\ start_time' = None)]_vars

\* C17 witness: a drill was entered after a measurement had been saved, and
\* its timer is idle.
C17_Witness ==
  /\ event = "go_to_drill"
  /\ updates = 1
  /\ current_screen = "drill"
  /\ selected_problem = None
  /\ ~is_running /\ elapsed_time = 0 /\ start_time = None

\* C19: on every list the session reaches, toggling a member removes exactly
\* that pair and keeps the order of the rest; toggling a non-member of a list
\* shorter than 3 appends it at the end, and toggling it again gives the list
\* back; after a removal from a full list any new pair can be added.
C19_ToggleRemovesOrAppends ==
  \A fav \in DRILL_DATA :
    LET t == toggle_favorite(favorites, fav)
    IN  /\ Member(favorites, fav) =>
             /\ t = Without(favorites, fav)
             /\ Len(t) = Len(favorites) - 1
             /\ (Len(favorites) = 3 =>
                   \A g \in DRILL_DATA : ~Member(t, g) => toggle_favorite(t, g) = Append(t, g))
        /\ (~Member(favorites, fav) /\ Len(favorites) < 3) =>
             /\ t = Append(favorites, fav)
             /\ toggle_favorite(t, fav) = favorites

\* C19 witness: an entry was just removed from a full list.
C19_Witness == event = "fav_removed" /\ Len(favorites) = 2

\* C20: while a drill is open the chosen problem does not change unless the
\* timer is idle afterwards (the measurement is discarded).
C20_ProblemFixedForRun ==
  [][(/\ current_screen = "drill"
      /\ current_screen' = "drill"
      /\ selected_problem # None
      /\ selected_problem' # selected_problem) =>
       (~is_running' /\ elapsed_time' = 0 /\ start_time' = None)]_vars

\* C18: the timer is not Running at any point of the countdown, and it is
\* Running with elapsed time 0 when the countdown has completed.
C18_CountdownNotRunning ==
  /\ pc \in {"tick3", "tick2", "tick1", "go"} => ~is_running
  /\ event = "start" => (is_running /\ elapsed_time = 0 /\ start_time # None)

\* C15: a save keeps a record that another process added to the store before
\* the save began.
C15_SaveKeepsPeerRecord ==
  [][(Written /\ Member(sheet.rows, PeerRecord)) => Member(sheet'.rows, PeerRecord)]_vars

\* C16: with two writers every write leaves the store as the writer's own
\* dataset plus its record (the last full rewrite wins), whatever the other
\* session wrote in between.
C16_LastWriterWins ==
  [][/\ PeerSave => sheet'.rows = Append(peer.df, PeerRecord)
     /\ Written => sheet'.rows = Append(run_df, LastRow(sheet'))]_vars

\* C16 witness: both sessions have read the store without error and saved,
\* this session last, and the store holds one record only.
C16_Witness ==
  /\ peer.pc = "saved"
  /\ ~peer.err
  /\ event = "saved"
  /\ ~load_error
  /\ updates = 1
  /\ Len(sheet.rows) = 1

\* the header lacks "日付" or "単元"
Malformed(sh) == ~sh.cols_ok \/ KeyError(sh.rows)

\* C12: when the last read met an unreachable, empty or malformed store, the
\* dataset in use is the empty one, and the card of every unit and level shows
\* "-" for best time and last date and 0 attempts.
C12_DegradedLoadIsEmpty ==
  (cache.valid /\ (load_error \/ sheet.rows = <<>> \/ Malformed(sheet))) =>
    /\ cache.df = EmptyDf
    /\ \A fav \in DRILL_DATA :
         LevelCard(cache.df, fav[1], fav[2]) =
           [best_time |-> None, last_date |-> None, try_count |-> 0]

====
